---- MODULE Spec2Model ----
(***************************************************************************)
(* A model of src/services/geminiService.ts: the chunker, the retriever,   *)
(* the rate limiter, the process-wide Document State, the extraction       *)
(* orchestrator (extractAxioms), the chat session (GroqChatSession) and    *)
(* the chat orchestrator (chatWithManuscriptStream).                       *)
(*                                                                         *)
(* Strings are run-length encoded: a text is a sequence of runs            *)
(* [c |-> character, n |-> count], n > 0, adjacent runs of different       *)
(* characters.  Two texts are equal iff their encodings are equal, so the  *)
(* program's real lengths (100, 400, 2500, 15000, ...) are used unscaled.  *)
(***************************************************************************)
EXTENDS Integers, Sequences, FiniteSets, TLC

VARIABLES
    \* ---- the chunker applied to drawn inputs (SpecChunk)
    ckText,       \* the text argument
    ckSize,       \* the chunkSize argument
    ckOverlap,    \* the overlap argument
    ckVisited,    \* the windows its loop visited for them, in order
    ckOut,        \* the value chunkText returned for them
    ckDone,       \* whether chunkText has been applied to the inputs
    \* ---- the retriever applied to drawn inputs (SpecRetrieve)
    rt,           \* its arguments, the scored and the ranked items, its result
    \* ---- the preview and the commit of extractAxioms on drawn inputs (SpecPreview)
    pv,           \* the transcript, the parsed response, the preview, the state
    \* ---- the callers that do not wait for one another (SpecConcurrent)
    started,      \* how many extractions and chat turns they have started
    \* ---- the environment
    now,          \* Date.now(), in milliseconds
    apiKey,       \* process.env.GROQ_API_KEY
    \* ---- the module's state (lines 48-57)
    chatSession,          \* null (NoSession) or a reference to a GroqChatSession
    manuscriptSnippets,
    documentChunks,
    fullManuscriptText,
    currentPdfBase64,
    manuscriptMetadata,
    lastRequestTime,
    \* ---- the heap and the calls in flight
    heap,         \* the GroqChatSession objects that are still referenced
    ext,          \* the extractAxioms calls: position, arguments, locals
    chat,         \* the chatWithManuscriptStream call: position, arguments, locals
    \* ---- history variables
    lastIssued,   \* the instant of the last outbound completion request
    extSinceChat  \* whether an extractAxioms call was started since the last chat
                  \* turn: "no", "yes", or "over a session" when chatSession
                  \* referred to a session as it started

ckVars == <<ckText, ckSize, ckOverlap, ckVisited, ckOut, ckDone>>
docVars == <<manuscriptSnippets, documentChunks, fullManuscriptText,
             currentPdfBase64, manuscriptMetadata>>
mainVars == <<now, apiKey, chatSession, docVars, lastRequestTime, heap, ext, chat,
              lastIssued, extSinceChat>>
vars == <<ckVars, rt, pv, started, mainVars>>

Min(a, b) == IF a < b THEN a ELSE b
Max(a, b) == IF a > b THEN a ELSE b

(***************************************************************************)
(* Strings                                                                 *)
(***************************************************************************)
Empty == <<>>

\* String.prototype.trim's white space, among the characters the model uses.
IsWs(c) == c \in {" ", "\n"}

\* s.length
RECURSIVE TLen(_)
TLen(t) == IF t = <<>> THEN 0 ELSE Head(t).n + TLen(Tail(t))

\* s + t
TCat(s, t) ==
    IF s = <<>> THEN t
    ELSE IF t = <<>> THEN s
    ELSE IF s[Len(s)].c = t[1].c
         THEN SubSeq(s, 1, Len(s) - 1)
              \o <<[c |-> t[1].c, n |-> s[Len(s)].n + t[1].n]>>
              \o Tail(t)
         ELSE s \o t

\* The string of the characters cs, in order.
RECURSIVE Str(_)
Str(cs) == IF cs = <<>> THEN Empty
           ELSE TCat(<<[c |-> Head(cs), n |-> 1]>>, Str(Tail(cs)))

\* The character c repeated n times.
Rep(c, n) == IF n = 0 THEN Empty ELSE <<[c |-> c, n |-> n]>>

\* s.substring(a, b) for 0 <= a <= b <= s.length, the only way the code calls it.
RECURSIVE TSub(_, _, _)
TSub(t, a, b) ==
    IF t = <<>> \/ b <= 0 THEN <<>>
    ELSE LET r    == Head(t)
             lo   == Max(a, 0)
             hi   == Min(b, r.n)
             rest == TSub(Tail(t), a - r.n, b - r.n)
         IN  IF hi > lo THEN <<[c |-> r.c, n |-> hi - lo]>> \o rest ELSE rest

RECURSIVE TrimStart(_)
TrimStart(t) == IF t # <<>> /\ IsWs(Head(t).c) THEN TrimStart(Tail(t)) ELSE t

RECURSIVE TrimEnd(_)
TrimEnd(t) == IF t # <<>> /\ IsWs(t[Len(t)].c) THEN TrimEnd(SubSeq(t, 1, Len(t) - 1)) ELSE t

\* s.trim()
TTrim(t) == TrimEnd(TrimStart(t))

(***************************************************************************)
(* Chunker                                                                 *)
(***************************************************************************)
\* chunkText's default arguments and the literal of its length test.
DEFAULT_CHUNK_SIZE == 2500
DEFAULT_OVERLAP == 400
MIN_CHUNK_LENGTH == 100

\* The test that decides whether a window is pushed.
ChunkKeptMutant(chunk) == TLen(chunk) >= MIN_CHUNK_LENGTH
ChunkKept(chunk) == TLen(TTrim(chunk)) >= MIN_CHUNK_LENGTH

\* The step of the loop: start += chunkSize - overlap.
NextStartMutant(start, chunkSize, overlap) == start + chunkSize
NextStart(start, chunkSize, overlap) == start + chunkSize - overlap

\* The while loop of chunkText from `start` on: the windows it visits, in the
\* order visited, each with its offsets, its substring and whether it is pushed.
RECURSIVE chunkWindows(_, _, _, _)
chunkWindows(text, chunkSize, overlap, start) ==
    IF ~(start < TLen(text)) THEN <<>>
    ELSE LET end   == Min(start + chunkSize, TLen(text))
             chunk == TSub(text, start, end)
             w     == [start |-> start, end |-> end, chunk |-> chunk,
                       kept |-> ChunkKept(chunk)]
         IN  IF end = TLen(text) THEN <<w>>
             ELSE <<w>> \o chunkWindows(text, chunkSize, overlap,
                                        NextStart(start, chunkSize, overlap))

Kept(w) == w.kept

\* The windows chunkText pushes, in order.
chunkKeptWindows(text, chunkSize, overlap) ==
    SelectSeq(chunkWindows(text, chunkSize, overlap, 0), Kept)

chunkText(text, chunkSize, overlap) ==
    LET ws == chunkKeptWindows(text, chunkSize, overlap)
    IN  [i \in 1..Len(ws) |-> ws[i].chunk]

(***************************************************************************)
(* The chunker on drawn inputs                                             *)
(***************************************************************************)
\* Texts of up to MaxRuns runs, alternating letters and white space, with run
\* lengths around the length test (100) and the drawn chunk sizes.
MaxRuns == 3
RunUnit == 40
RunLengths == {RunUnit, RunUnit + 25, 3 * RunUnit, 6 * RunUnit}
CkChunkSizes == {2 * RunUnit, 3 * RunUnit, 5 * RunUnit + 10}
CkOverlaps == {0, RunUnit - 10, RunUnit + 20}

RECURSIVE AltRuns(_, _)
AltRuns(first, lens) ==
    IF lens = <<>> THEN <<>>
    ELSE <<[c |-> first, n |-> Head(lens)]>>
         \o AltRuns(IF first = "x" THEN " " ELSE "x", Tail(lens))

CkTexts ==
    {Empty} \cup
    UNION {{AltRuns(first, lens) : first \in {"x", " "}, lens \in [1..k -> RunLengths]}
           : k \in 1..MaxRuns}

CkInit ==
    /\ ckText \in CkTexts
    /\ ckSize \in CkChunkSizes
    /\ ckOverlap \in {o \in CkOverlaps : o < ckSize}
    /\ ckVisited = <<>>
    /\ ckOut = <<>>
    /\ ckDone = FALSE

\* chunkText(text, chunkSize, overlap) is called.
ChunkCall ==
    /\ ~ckDone
    /\ ckVisited' = chunkWindows(ckText, ckSize, ckOverlap, 0)
    /\ ckOut' = chunkText(ckText, ckSize, ckOverlap)
    /\ ckDone' = TRUE
    /\ UNCHANGED <<ckText, ckSize, ckOverlap, rt, pv, started, mainVars>>

(***************************************************************************)
(* JavaScript values, as far as the code tells them apart                  *)
(***************************************************************************)
UNDEF == [kind |-> "undefined"]
JStr(t) == [kind |-> "string", v |-> t]
JNum(k) == [kind |-> "number", v |-> k]
JArr(s) == [kind |-> "array", v |-> s]
\* An object with the properties the code reads.
JMeta(title, author, chapters) ==
    [kind |-> "object", title |-> title, author |-> author, chapters |-> chapters]

\* ToBoolean.
Truthy(v) ==
    CASE v.kind = "undefined" -> FALSE
      [] v.kind = "null"      -> FALSE
      [] v.kind = "string"    -> v.v # Empty
      [] v.kind = "number"    -> v.v # 0
      [] OTHER                -> TRUE

\* a || b
Or(a, b) == IF Truthy(a) THEN a ELSE b

\* v.f, for a v that is neither null nor undefined: a primitive has none of the
\* properties the code reads.
Prop(v, f) == IF v.kind = "object" THEN v[f] ELSE UNDEF

(***************************************************************************)
(* Retriever                                                               *)
(***************************************************************************)
MIN_SCORE_THRESHOLD == 1
WORD_MATCH_WEIGHT == 3
INTRO_BONUS == 2
INTRO_POSITIONS == 3
MIN_QUERY_WORD_LENGTH == 3
FALLBACK_BELOW == 3
CHAT_TOP_K == 15

\* toLowerCase on one character, among the characters the model uses.
LowerChar(c) ==
    CASE c = "A" -> "a" [] c = "T" -> "t" [] c = "X" -> "x" [] OTHER -> c

\* s.toLowerCase()
RECURSIVE TLower(_)
TLower(t) ==
    IF t = <<>> THEN Empty
    ELSE TCat(<<[c |-> LowerChar(Head(t).c), n |-> Head(t).n]>>, TLower(Tail(t)))

\* s.split(/\s+/): the pieces between the runs of white space; a leading or a
\* trailing run of white space gives an empty first or last piece.
RECURSIVE SplitFrom(_, _)
SplitFrom(t, cur) ==
    IF t = <<>> THEN <<cur>>
    ELSE IF IsWs(Head(t).c)
         THEN IF Tail(t) # <<>> /\ IsWs(Tail(t)[1].c)
              THEN SplitFrom(Tail(t), cur)
              ELSE <<cur>> \o SplitFrom(Tail(t), Empty)
         ELSE SplitFrom(Tail(t), TCat(cur, <<Head(t)>>))

SplitWs(t) == SplitFrom(t, Empty)

LongWord(w) == TLen(w) > MIN_QUERY_WORD_LENGTH

\* query.toLowerCase().split(/\s+/).filter(w => w.length > 3)
QueryWords(query) == SelectSeq(SplitWs(TLower(query)), LongWord)

\* s.includes(w): w occurs in s as a contiguous substring.
Includes(s, w) ==
    IF w = <<>> THEN TRUE
    ELSE IF Len(w) = 1
         THEN \E j \in 1..Len(s) : s[j].c = w[1].c /\ s[j].n >= w[1].n
         ELSE \E j \in 1..(Len(s) - Len(w) + 1) :
                 /\ s[j].c = w[1].c /\ s[j].n >= w[1].n
                 /\ \A k \in 2..(Len(w) - 1) : s[j + k - 1] = w[k]
                 /\ s[j + Len(w) - 1].c = w[Len(w)].c
                 /\ s[j + Len(w) - 1].n >= w[Len(w)].n

\* The words of line 127; the Arabic ones are spelled by their letters' names.
TRIGGER_WORDS ==
    { Str(<<"kaf", "alef", "teh", "beh">>),
      Str(<<"meem", "waw-hamza", "lam", "feh">>),
      Str(<<"a", "u", "t", "h", "o", "r">>),
      Str(<<"t", "i", "t", "l", "e">>) }

AsksAuthorOrTitle(query) == \E w \in TRIGGER_WORDS : Includes(TLower(query), w)

\* chunks.indexOf(chunk), zero-based: the first position holding an equal string.
IndexOf(chunks, chunk) ==
    (CHOOSE i \in 1..Len(chunks) :
        chunks[i] = chunk /\ \A j \in 1..(i - 1) : chunks[j] # chunk) - 1

RECURSIVE WordScore(_, _)
WordScore(chunkLower, words) ==
    IF words = <<>> THEN 0
    ELSE (IF Includes(chunkLower, Head(words)) THEN WORD_MATCH_WEIGHT ELSE 0)
         + WordScore(chunkLower, Tail(words))

\* The callback of chunks.map (lines 117-132).
ScoreChunk(query, chunks, chunk) ==
    WordScore(TLower(chunk), QueryWords(query))
    + (IF AsksAuthorOrTitle(query) /\ IndexOf(chunks, chunk) < INTRO_POSITIONS
       THEN INTRO_BONUS ELSE 0)

\* chunks.map(...): one new object per element; `pos` is a history field, the
\* position of the element the object was made for.
scoreChunks(query, chunks) ==
    [i \in 1..Len(chunks) |->
        [chunk |-> chunks[i], score |-> ScoreChunk(query, chunks, chunks[i]), pos |-> i]]

\* Array.prototype.sort with (a, b) => b.score - a.score: descending by score,
\* stable (ECMAScript 2019).
RECURSIVE InsertByScoreMutant(_, _)
InsertByScoreMutant(sorted, item) ==
    IF sorted = <<>> THEN <<item>>
    ELSE IF Head(sorted).score > item.score
         THEN <<Head(sorted)>> \o InsertByScoreMutant(Tail(sorted), item)
         ELSE <<item>> \o sorted

RECURSIVE InsertByScore(_, _)
InsertByScore(sorted, item) ==
    IF sorted = <<>> THEN <<item>>
    ELSE IF Head(sorted).score >= item.score
         THEN <<Head(sorted)>> \o InsertByScore(Tail(sorted), item)
         ELSE <<item>> \o sorted

RECURSIVE SortByScore(_)
SortByScore(items) ==
    IF items = <<>> THEN <<>>
    ELSE InsertByScore(SortByScore(SubSeq(items, 1, Len(items) - 1)), items[Len(items)])

MeetsThreshold(item) == item.score >= MIN_SCORE_THRESHOLD

\* Lines 139-144: the items meeting the threshold, or all of them when fewer
\* than three do.
RelevantMutant(scoredChunks) == SelectSeq(scoredChunks, MeetsThreshold)
Relevant(scoredChunks) ==
    LET filtered == SelectSeq(scoredChunks, MeetsThreshold)
    IN  IF Len(filtered) < FALLBACK_BELOW THEN scoredChunks ELSE filtered

\* relevant.slice(0, topK) for topK >= 0.
SliceTopMutant(relevant, topK) == SubSeq(relevant, 1, Min(topK + 1, Len(relevant)))
SliceTop(relevant, topK) == SubSeq(relevant, 1, Min(topK, Len(relevant)))

\* Lines 112-147: the items whose chunks are returned, in order.
retrieveRanked(query, chunks, topK) ==
    IF Len(chunks) = 0 THEN <<>>
    ELSE SliceTop(Relevant(SortByScore(scoreChunks(query, chunks))), topK)

retrieveRelevantChunks(query, chunks, topK) ==
    LET top == retrieveRanked(query, chunks, topK)
    IN  [i \in 1..Len(top) |-> top[i].chunk]

\* The array passed as `chunks`, after the call: chunks.map makes a new array
\* (line 117) and sort, which sorts in place, is applied to that one (line 135).
ChunksAfterRetrieveMutant(query, chunks) ==
    retrieveRelevantChunks(query, chunks, Len(chunks))
ChunksAfterRetrieve(query, chunks) == chunks

\* The retriever applied to drawn arguments: chunk sequences of up to MaxChunks
\* elements, with repeated contents, and queries with and without a trigger
\* word, with only short words, and empty.
MaxChunks == 4
MaxTopK == 3
RtChunkTexts ==
    { TCat(Rep("x", 4), Str(<<" ", "a", "u", "t", "h", "o", "r">>)),
      Rep("X", 4),
      Rep("z", 2) }
RtQueries ==
    { TCat(Rep("x", 4), Str(<<" ", "A", "u", "t", "h", "o", "r">>)),
      TCat(Rep("x", 4), TCat(Rep(" ", 2), Rep("z", 2))),
      Str(<<"i", "s", " ", "i", "t">>),
      Str(<<"t", "i", "t", "l", "e">>),
      Empty }
RtChunkSeqs == UNION {[1..n -> RtChunkTexts] : n \in 0..MaxChunks}

RtIdle ==
    rt = [query |-> Empty, chunks |-> <<>>, topK |-> CHAT_TOP_K, scored |-> <<>>,
          ranked |-> <<>>, out |-> <<>>, done |-> FALSE]

RtInit ==
    \E query \in RtQueries, chunks \in RtChunkSeqs, topK \in 0..MaxTopK :
        rt = [query |-> query, chunks |-> chunks, topK |-> topK, scored |-> <<>>,
              ranked |-> <<>>, out |-> <<>>, done |-> FALSE]

\* retrieveRelevantChunks(query, chunks, topK) is called.
RetrieveCall ==
    /\ ~rt.done
    /\ rt' = [rt EXCEPT
                !.scored = scoreChunks(rt.query, rt.chunks),
                !.ranked = retrieveRanked(rt.query, rt.chunks, rt.topK),
                !.out = retrieveRelevantChunks(rt.query, rt.chunks, rt.topK),
                !.done = TRUE]
    /\ UNCHANGED <<ckVars, pv, started, mainVars>>

(***************************************************************************)
(* Inputs and bounds                                                       *)
(***************************************************************************)
MIN_REQUEST_GAP == 3500
NATIVE_TEXT_MIN == 500
STRUCTURAL_MAP_MAX == 15000

\* The clock advances by TickStep, MaxTicks times; no call starts a wait that
\* would end later.  The first call is made when the clock, which counts from
\* 1970, is far beyond one gap.
TickStep == 1750
MaxTicks == 4
StartTime == MIN_REQUEST_GAP
MaxTime == StartTime + MaxTicks * TickStep

\* The non-empty increments one streamed answer may carry.
MaxDeltas == 2

ExtIds == {1, 2}
SIDs == {1, 2}
NoSession == 0

NoPdf == "null"
Pdfs == {"pdfA", "pdfB"}

ApiKeys == {"gsk_live", "", "undefined"}

\* What extractNativeText may return: "" (a scan, or a failure it swallowed), a
\* transcript too short to be preferred, and a long one.
ShortNative == TCat(Rep("x", 300), Rep("\n", 2))
LongNative ==
    TCat(Rep("x", 2000), TCat(Str(<<" ", "a", "u", "t", "h", "o", "r", " ">>),
    TCat(Rep("y", 2600), TCat(Rep(" ", 300), TCat(Rep("z", 900), Rep("\n", 2))))))
NativeTexts == {Empty, ShortNative, LongNative}

EchoText == TCat(Rep("e", 150), Rep(" ", 10))

\* What JSON.parse may make of the completion: a syntax error, null, or an object
\* with some of the fields the prompt asks for, not all of the asked types.
JNull == [kind |-> "null"]
JResult(snippets, metadata, fullText, axioms) ==
    [kind |-> "result", snippets |-> snippets, metadata |-> metadata,
     fullText |-> fullText, axioms |-> axioms]
Responses ==
    { [kind |-> "syntax-error"],
      JNull,
      JResult(JArr(<<"s1">>), JMeta(JStr(Str(<<"T">>)), JStr(Str(<<"A">>)), JStr(Str(<<"c">>))),
              JStr(EchoText), JArr(<<"ax1">>)),
      JResult(UNDEF, UNDEF, UNDEF, UNDEF),
      JResult(JArr(<<"s2">>), JStr(Str(<<"m">>)), UNDEF, JArr(<<"ax2">>)),
      JResult(JArr(<<"s3">>), JMeta(UNDEF, UNDEF, UNDEF), JNum(7), UNDEF) }

Queries == { Str(<<"w", "h", "o", " ", "i", "s", " ", "a", "u", "t", "h", "o", "r">>),
             Str(<<"z", "z", "z", "z", " ", "i", "t">>) }

\* chunk.choices[0]?.delta?.content of one streamed chunk.
Deltas == {UNDEF, JStr(Empty), JStr(Str(<<"a">>)), JStr(Str(<<"b">>))}

InFlight(pc) == pc \notin {"idle", "done", "failed"}

(***************************************************************************)
(* Document State                                                          *)
(***************************************************************************)
DocState ==
    [snippets |-> manuscriptSnippets, metadata |-> manuscriptMetadata,
     fullText |-> fullManuscriptText, chunks |-> documentChunks]

EmptyObject == JMeta(UNDEF, UNDEF, UNDEF)

\* `*** TABLE OF CONTENTS & INTRO MAP ***\n${structuralMap}\n*** END MAP ***`
WrapMap(structuralMap) ==
    JStr(TCat(Str(<<"MAP-HEADER", "\n">>), TCat(structuralMap, Str(<<"\n", "MAP-FOOTER">>))))

\* fullManuscriptText.substring(0, Math.min(15000, fullManuscriptText.length))
StructuralMapMutant(text) == text
StructuralMap(text) == TSub(text, 0, Min(STRUCTURAL_MAP_MAX, TLen(text)))

\* Line 308.
ChooseFullText(nativeText, result) ==
    IF TLen(TTrim(nativeText)) > NATIVE_TEXT_MIN
    THEN JStr(nativeText)
    ELSE Or(result.fullText, JStr(Empty))

\* Lines 303-322 on the parsed result: the Document State and the raw payload
\* they leave, and how they end.  The statements run in order and a TypeError
\* leaves what the earlier statements assigned.
Populate(result, nativeText, doc, pdf) ==
    IF result.kind = "null"
    THEN [doc |-> doc, pdf |-> pdf, err |-> "TypeError", ret |-> UNDEF]
    ELSE LET snippets == Or(result.snippets, JArr(<<>>))
             metadata == Or(result.metadata, EmptyObject)
             fullText == ChooseFullText(nativeText, result)
             d3 == [doc EXCEPT !.snippets = snippets, !.metadata = metadata,
                               !.fullText = fullText]
         IN  IF fullText.kind # "string"
             THEN \* line 313: a number has no substring method
                  [doc |-> d3, pdf |-> pdf, err |-> "TypeError", ret |-> UNDEF]
             ELSE IF metadata.kind # "object"
             THEN \* line 314: a property of a primitive cannot be created (strict mode)
                  [doc |-> d3, pdf |-> pdf, err |-> "TypeError", ret |-> UNDEF]
             ELSE [doc |-> [d3 EXCEPT
                              !.metadata = [metadata EXCEPT
                                  !.chapters = WrapMap(StructuralMap(fullText.v))],
                              !.chunks = chunkText(fullText.v, DEFAULT_CHUNK_SIZE,
                                                   DEFAULT_OVERLAP)],
                   pdf |-> NoPdf, err |-> "none",
                   ret |-> Or(result.axioms, JArr(<<>>))]

\* Line 245: the part of the transcript inlined in the extraction prompt.
PREVIEW_MAX == 20000
TRUNCATION_MARKER ==
    Str(<<".", ".", ".", "(", "t", "r", "u", "n", "c", "a", "t", "e", "d", ")">>)
TextPreviewMutant(nativeText) ==
    IF TLen(nativeText) >= PREVIEW_MAX
    THEN TCat(TSub(nativeText, 0, PREVIEW_MAX), TRUNCATION_MARKER)
    ELSE nativeText
TextPreview(nativeText) ==
    IF TLen(nativeText) > PREVIEW_MAX
    THEN TCat(TSub(nativeText, 0, PREVIEW_MAX), TRUNCATION_MARKER)
    ELSE nativeText

(***************************************************************************)
(* Rate limiter                                                            *)
(***************************************************************************)
\* timeSinceLast < MIN_REQUEST_GAP
NeedsWait(t, last) == t - last < MIN_REQUEST_GAP

\* The delay handed to setTimeout.
ThrottleDelayMutant(t, last) == MIN_REQUEST_GAP - (t - last) - TickStep
ThrottleDelay(t, last) == MIN_REQUEST_GAP - (t - last)

\* lastRequestTime = Date.now(), read again after the wait: `entered` is the
\* instant the call read first, `current` the clock when it completes.
ThrottleStampMutant(entered, current) == entered
ThrottleStamp(entered, current) == current

NoThr == [start |-> 0, stamp |-> 0]
NoTime == -1

\* History variable of a call: how long before its completion request the
\* previous one was issued (NoTime for the first request).
SincePrevious == IF lastIssued = NoTime THEN NoTime ELSE now - lastIssued

(***************************************************************************)
(* Credential                                                              *)
(***************************************************************************)
\* getGroqClient throws unless the key is set and is not the text "undefined".
KeyMissing == apiKey = "" \/ apiKey = "undefined"

(***************************************************************************)
(* Chat session                                                            *)
(***************************************************************************)
FREE == [kind |-> "free"]

Message(role, content) == [role |-> role, content |-> content]

\* getSystemInstruction: the template embeds the manuscript context when the
\* metadata has a title; its `lang` parameter is not used by the template.
getSystemInstruction ==
    IF Truthy(Prop(manuscriptMetadata, "title"))
    THEN [title |-> Prop(manuscriptMetadata, "title"),
          author |-> Prop(manuscriptMetadata, "author"),
          structure |-> Prop(manuscriptMetadata, "chapters")]
    ELSE [title |-> UNDEF, author |-> UNDEF, structure |-> UNDEF]

\* this.history.push(message)
HistoryPushMutant(history, message) == <<message>> \o history
HistoryPush(history, message) == Append(history, message)

\* new GroqChatSession(client, model, systemInstruction); `stale` and `outdated`
\* are history variables: an extractAxioms call was started, or has committed
\* its Document State, after the object was made.
NewSession(systemInstruction) ==
    [kind |-> "session",
     history |-> HistoryPush(<<>>, Message("system", systemInstruction)),
     stale |-> FALSE, outdated |-> FALSE]

\* Objects no longer referenced, by the module or by a generator, are dropped.
Collect(h, session, this) ==
    [s \in SIDs |-> IF s = session \/ s = this THEN h[s] ELSE FREE]

FreeSid == CHOOSE s \in SIDs : heap[s] = FREE

\* chatSession = null in extractAxioms (line 223).
SessionAfterExtractMutant(session) == session
SessionAfterExtract(session) == NoSession

\* chatSession = null in the catch of chatWithManuscriptStream (line 385).
SessionAfterChatFailureMutant(session) == session
SessionAfterChatFailure(session) == NoSession

\* chunk.choices[0]?.delta?.content || ""
DeltaContent(delta) == Or(delta, JStr(Empty)).v

\* fullResponse += content
AccumulateMutant(fullResponse, content) == content
Accumulate(fullResponse, content) == TCat(fullResponse, content)

\* Lines 341-372: the prompt handed to the session.
AugmentedPrompt(userPrompt) ==
    LET relevantChunks == retrieveRelevantChunks(userPrompt, documentChunks, CHAT_TOP_K)
        map == Or(Prop(manuscriptMetadata, "chapters"), JStr(Str(<<"Not available">>)))
    IN  IF Len(relevantChunks) > 0
        THEN [template |-> "grounded", map |-> map, context |-> relevantChunks,
              question |-> userPrompt]
        ELSE [template |-> "structure-only", map |-> map, context |-> <<>>,
              question |-> userPrompt]

(***************************************************************************)
(* Initial state: the module as loaded, no call made                       *)
(***************************************************************************)
IdleExt ==
    [pc |-> "idle", pdf |-> NoPdf, thr |-> NoThr, wake |-> 0, nativeText |-> Empty,
     err |-> "none", failedAt |-> "none", docKept |-> TRUE, ret |-> UNDEF,
     sincePrev |-> NoTime, preview |-> Empty,
     pre |-> [snippets |-> JArr(<<>>), metadata |-> EmptyObject,
              fullText |-> JStr(Empty), chunks |-> <<>>]]

IdleChat ==
    [pc |-> "idle", userPrompt |-> Empty, thr |-> NoThr, wake |-> 0, this |-> NoSession,
     fullResponse |-> Empty, upstream |-> <<>>, delivered |-> <<>>,
     err |-> "none", thrown |-> "none", failedAt |-> "none",
     afterExtract |-> "no", final |-> <<>>, sincePrev |-> NoTime]

MainInit ==
    /\ now = StartTime
    /\ apiKey \in ApiKeys
    /\ chatSession = NoSession
    /\ manuscriptSnippets = JArr(<<>>)
    /\ documentChunks = <<>>
    /\ fullManuscriptText = JStr(Empty)
    /\ currentPdfBase64 = NoPdf
    /\ manuscriptMetadata = EmptyObject
    /\ lastRequestTime = 0
    /\ heap = [s \in SIDs |-> FREE]
    /\ ext = [e \in ExtIds |-> IdleExt]
    /\ chat = IdleChat
    /\ lastIssued = NoTime
    /\ extSinceChat = "no"
    /\ started = [ext |-> 0, chat |-> 0]

CkIdle ==
    /\ ckText = Empty
    /\ ckSize = DEFAULT_CHUNK_SIZE
    /\ ckOverlap = DEFAULT_OVERLAP
    /\ ckVisited = <<>>
    /\ ckOut = <<>>
    /\ ckDone = FALSE

\* Lines 245 and 303-317 applied to drawn transcripts, of lengths around the
\* preview's bound, and drawn parsed responses.
PreviewSlack == 3
PvLengths == (PREVIEW_MAX - PreviewSlack)..(PREVIEW_MAX + PreviewSlack)
PvNatives ==
    UNION {{Rep("x", n),
            TCat(Rep("x", n - 2), Rep("\n", 2)),
            TCat(Rep(" ", n - NATIVE_TEXT_MIN), Rep("y", NATIVE_TEXT_MIN))}
           : n \in PvLengths}
PvResults == {r \in Responses : r.kind # "syntax-error"}
PvNone == [doc |-> DocState, pdf |-> NoPdf, err |-> "none", ret |-> UNDEF]

PvIdle ==
    pv = [native |-> Empty, result |-> JNull, preview |-> Empty, out |-> PvNone,
          done |-> FALSE]

PvInit ==
    \E native \in PvNatives, result \in PvResults :
        pv = [native |-> native, result |-> result, preview |-> Empty,
              out |-> PvNone, done |-> FALSE]

\* extractAxioms builds the preview of the transcript and, the response parsed,
\* commits.
PreviewCall ==
    /\ ~pv.done
    /\ pv' = [pv EXCEPT !.preview = TextPreview(pv.native),
                        !.out = Populate(pv.result, pv.native, DocState, NoPdf),
                        !.done = TRUE]
    /\ UNCHANGED <<ckVars, rt, started, mainVars>>

Init == MainInit /\ CkIdle /\ RtIdle /\ PvIdle

\* The record of a call that has ended holds what the caller got from it; the
\* caller has taken it when it makes its next call.
Taken(call, idle) == IF InFlight(call.pc) THEN call ELSE idle

\* No extractAxioms and no chatWithManuscriptStream call is in flight.
Quiescent == (\A e \in ExtIds : ~InFlight(ext[e].pc)) /\ ~InFlight(chat.pc)

(***************************************************************************)
(* The clock                                                               *)
(***************************************************************************)
\* Time passes while the calls in flight are suspended on a timer or on I/O, not
\* while one is to resume at once (the continuation of an await that did not wait).
Tick ==
    /\ now + TickStep <= MaxTime
    /\ chat.pc # "throttled"
    /\ \A e \in ExtIds : ext[e].pc # "throttled"
    /\ now' = now + TickStep
    /\ UNCHANGED <<ckVars, rt, pv, started, apiKey, chatSession, docVars, lastRequestTime, heap, ext, chat,
                   lastIssued, extSinceChat>>

(***************************************************************************)
(* throttleRequest, as run by a call: `call` is the call's record          *)
(***************************************************************************)
\* The call's wait, if it starts one now, ends within the modelled time.
ThrottleFits ==
    NeedsWait(now, lastRequestTime) => now + ThrottleDelay(now, lastRequestTime) <= MaxTime

\* Lines 152-157 up to the await, or to the end when there is no wait: the call.
ThrottleEntered(call) ==
    IF NeedsWait(now, lastRequestTime)
    THEN [call EXCEPT !.pc = "wait",
                      !.thr = [start |-> now, stamp |-> lastRequestTime],
                      !.wake = now + ThrottleDelay(now, lastRequestTime)]
    ELSE [call EXCEPT !.pc = "throttled",
                      !.thr = [start |-> now, stamp |-> lastRequestTime]]

\* The same lines: the timestamp.
ThrottleEnterStamp ==
    IF NeedsWait(now, lastRequestTime)
    THEN UNCHANGED lastRequestTime
    ELSE lastRequestTime' = ThrottleStamp(now, now)

\* The timer has fired: line 157.
ThrottleWoken(call) == [call EXCEPT !.pc = "throttled", !.wake = 0]

ThrottleWakeStamp(call) == lastRequestTime' = ThrottleStamp(call.thr.start, now)

(***************************************************************************)
(* extractAxioms                                                           *)
(***************************************************************************)
\* The catch of line 323 rethrows; the call's locals die with it.  docKept is a
\* history variable: the Document State `doc` the call leaves is the one it found;
\* thr, another, is kept: the throttleRequest the call ran before it reached the
\* credential (line 221), the only failure that leaves it set.
ExtFailed(call, error, where, doc) ==
    [IdleExt EXCEPT !.pc = "failed", !.err = error, !.failedAt = where,
                    !.docKept = (doc = call.pre), !.thr = call.thr]

\* extractAxioms(pdfBase64, lang) is called and runs into throttleRequest.
ExtractBegin(e, pdfBase64) ==
    /\ ~InFlight(ext[e].pc)
    /\ ThrottleFits
    /\ ext' = [x \in ExtIds |->
                  IF x = e
                  THEN ThrottleEntered([IdleExt EXCEPT !.pdf = pdfBase64,
                                                       !.pre = DocState])
                  ELSE Taken(ext[x], IdleExt)]
    /\ ThrottleEnterStamp
    /\ chat' = Taken(chat, IdleChat)
    /\ extSinceChat' = IF chatSession # NoSession \/ extSinceChat = "over a session"
                       THEN "over a session" ELSE "yes"
    /\ heap' = [s \in SIDs |->
                  IF heap[s] = FREE THEN FREE ELSE [heap[s] EXCEPT !.stale = TRUE]]
    /\ UNCHANGED <<ckVars, rt, pv, now, apiKey, chatSession, docVars, lastIssued>>

\* The wait of throttleRequest ends.
ExtractThrottleWake(e) ==
    /\ ext[e].pc = "wait"
    /\ now >= ext[e].wake
    /\ ext' = [ext EXCEPT ![e] = ThrottleWoken(ext[e])]
    /\ ThrottleWakeStamp(ext[e])
    /\ UNCHANGED <<ckVars, rt, pv, started, now, apiKey, chatSession, docVars, heap, chat, lastIssued, extSinceChat>>

\* Lines 222-228: the credential, chatSession = null, the payload, and the call
\* of extractNativeText.
ExtractAfterThrottle(e) ==
    /\ ext[e].pc = "throttled"
    /\ IF KeyMissing
       THEN /\ ext' = [ext EXCEPT ![e] =
                          ExtFailed(ext[e], "GROQ_API_KEY_MISSING", "credential", DocState)]
            /\ UNCHANGED <<chatSession, currentPdfBase64, heap>>
       ELSE /\ chatSession' = SessionAfterExtract(chatSession)
            /\ currentPdfBase64' = ext[e].pdf
            /\ heap' = Collect(heap, chatSession', chat.this)
            /\ ext' = [ext EXCEPT ![e].pc = "native", ![e].thr = NoThr]
    /\ UNCHANGED <<ckVars, rt, pv, started, now, apiKey, manuscriptSnippets, documentChunks, fullManuscriptText,
                   manuscriptMetadata, lastRequestTime, chat, lastIssued,
                   extSinceChat>>

\* extractNativeText returns: a transcript, or "" when it caught a failure.
ExtractNativeText(e) ==
    /\ ext[e].pc = "native"
    /\ \E text \in NativeTexts :
          ext' = [ext EXCEPT ![e].pc = "images", ![e].nativeText = text]
    /\ UNCHANGED <<ckVars, rt, pv, started, now, apiKey, chatSession, docVars, lastRequestTime, heap, chat,
                   lastIssued, extSinceChat>>

\* convertPdfToImages throws (a payload that does not decode or render).
ExtractImagesFail(e) ==
    /\ ext[e].pc = "images"
    /\ ext' = [ext EXCEPT ![e] = ExtFailed(ext[e], "PDF_ERROR", "render", DocState)]
    /\ UNCHANGED <<ckVars, rt, pv, started, now, apiKey, chatSession, docVars, lastRequestTime, heap, chat,
                   lastIssued, extSinceChat>>

\* convertPdfToImages returns; lines 234-269 build the prompt and issue the
\* completion request.
ExtractRequest(e) ==
    /\ ext[e].pc = "images"
    /\ ext' = [ext EXCEPT ![e].pc = "api", ![e].sincePrev = SincePrevious,
                          ![e].preview = TextPreview(ext[e].nativeText)]
    /\ lastIssued' = now
    /\ UNCHANGED <<ckVars, rt, pv, started, now, apiKey, chatSession, docVars, lastRequestTime, heap, chat,
                   extSinceChat>>

\* The completion request fails.
ExtractApiError(e) ==
    /\ ext[e].pc = "api"
    /\ ext' = [ext EXCEPT ![e] = ExtFailed(ext[e], "UPSTREAM_ERROR", "api", DocState)]
    /\ UNCHANGED <<ckVars, rt, pv, started, now, apiKey, chatSession, docVars, lastRequestTime, heap, chat,
                   lastIssued, extSinceChat>>

\* The completion arrives: lines 285-322, which run without suspending.
ExtractResponse(e) ==
    /\ ext[e].pc = "api"
    /\ \E response \in Responses :
          IF response.kind = "syntax-error"
          THEN /\ ext' = [ext EXCEPT ![e] =
                             ExtFailed(ext[e], "FAILED_TO_PARSE_JSON", "parse", DocState)]
               /\ UNCHANGED docVars
          ELSE LET out == Populate(response, ext[e].nativeText, DocState,
                                   currentPdfBase64)
               IN  /\ manuscriptSnippets' = out.doc.snippets
                   /\ manuscriptMetadata' = out.doc.metadata
                   /\ fullManuscriptText' = out.doc.fullText
                   /\ documentChunks' = out.doc.chunks
                   /\ currentPdfBase64' = out.pdf
                   /\ ext' = [ext EXCEPT ![e] =
                                 IF out.err = "none"
                                 THEN [IdleExt EXCEPT !.pc = "done", !.ret = out.ret]
                                 ELSE ExtFailed(ext[e], out.err, "populate", out.doc)]
    /\ heap' = IF ext'[e].pc = "done"
               THEN [s \in SIDs |->
                       IF heap[s] = FREE THEN FREE ELSE [heap[s] EXCEPT !.outdated = TRUE]]
               ELSE heap
    /\ UNCHANGED <<ckVars, rt, pv, started, now, apiKey, chatSession, lastRequestTime, chat, lastIssued,
                   extSinceChat>>

(***************************************************************************)
(* chatWithManuscriptStream and GroqChatSession.sendMessageStream          *)
(***************************************************************************)
\* The catch of line 383 has run (or, for the credential, line 336 threw).
ChatFailed(call, error, where) ==
    [IdleChat EXCEPT !.pc = "failed", !.err = error, !.thrown = error,
                     !.failedAt = where, !.afterExtract = call.afterExtract]

\* chatWithManuscriptStream(userPrompt, lang, onChunk) is called: the credential
\* (line 336), then throttleRequest.
ChatBegin(userPrompt) ==
    /\ ~InFlight(chat.pc)
    /\ ext' = [x \in ExtIds |-> Taken(ext[x], IdleExt)]
    /\ extSinceChat' = "no"
    /\ IF KeyMissing
       THEN /\ chat' = ChatFailed([IdleChat EXCEPT !.afterExtract = extSinceChat],
                                  "GROQ_API_KEY_MISSING", "credential")
            /\ UNCHANGED lastRequestTime
       ELSE /\ ThrottleFits
            /\ chat' = ThrottleEntered([IdleChat EXCEPT !.userPrompt = userPrompt,
                                                        !.afterExtract = extSinceChat])
            /\ ThrottleEnterStamp
    /\ UNCHANGED <<ckVars, rt, pv, now, apiKey, chatSession, docVars, heap, lastIssued>>

\* The wait of throttleRequest ends.
ChatThrottleWake ==
    /\ chat.pc = "wait"
    /\ now >= chat.wake
    /\ chat' = ThrottleWoken(chat)
    /\ ThrottleWakeStamp(chat)
    /\ UNCHANGED <<ckVars, rt, pv, started, now, apiKey, chatSession, docVars, heap, ext, lastIssued, extSinceChat>>

\* Lines 341-380 and 26-28: the prompt, the session if there is none, the user
\* message, and the streaming completion request.
ChatRequest ==
    /\ chat.pc = "throttled"
    /\ LET sid  == IF chatSession = NoSession THEN FreeSid ELSE chatSession
           made == IF chatSession = NoSession
                   THEN [heap EXCEPT ![sid] = NewSession(getSystemInstruction)]
                   ELSE heap
       IN  /\ chatSession' = sid
           /\ heap' = [made EXCEPT ![sid].history =
                          HistoryPush(made[sid].history,
                                      Message("user", AugmentedPrompt(chat.userPrompt)))]
           /\ chat' = [chat EXCEPT !.pc = "opening", !.this = sid, !.thr = NoThr,
                                    !.sincePrev = SincePrevious]
    /\ documentChunks' = ChunksAfterRetrieve(chat.userPrompt, documentChunks)
    /\ lastIssued' = now
    /\ UNCHANGED <<ckVars, rt, pv, started, now, apiKey, manuscriptSnippets, fullManuscriptText,
                   currentPdfBase64, manuscriptMetadata, lastRequestTime, ext,
                   extSinceChat>>

\* throw error (line 386).
Rethrown(error) == error

\* The catch of lines 383-387, for an error raised at stage `where`.
ChatCatch(error, where) ==
    /\ chatSession' = SessionAfterChatFailure(chatSession)
    /\ chat' = [ChatFailed(chat, error, where) EXCEPT !.err = Rethrown(error)]
    /\ heap' = Collect(heap, chatSession', NoSession)
    /\ UNCHANGED <<ckVars, rt, pv, started, now, apiKey, docVars, lastRequestTime, ext, lastIssued,
                   extSinceChat>>

\* The streaming request is refused.
ChatOpenError ==
    /\ chat.pc = "opening"
    /\ ChatCatch("UPSTREAM_ERROR", "open")

\* The stream is open.
ChatOpened ==
    /\ chat.pc = "opening"
    /\ chat' = [chat EXCEPT !.pc = "streaming"]
    /\ UNCHANGED <<ckVars, rt, pv, started, now, apiKey, chatSession, docVars, lastRequestTime, heap, ext,
                   lastIssued, extSinceChat>>

\* The stream delivers one chunk (lines 36-41), and for a non-empty content the
\* loop of lines 380-382 hands it to onChunk, which returns.
ChatDelta(delta) ==
    /\ chat.pc = "streaming"
    /\ Len(chat.delivered) < MaxDeltas
    /\ LET content == DeltaContent(delta)
       IN  chat' = IF content # Empty
                   THEN [chat EXCEPT
                           !.fullResponse = Accumulate(chat.fullResponse, content),
                           !.delivered = Append(chat.delivered, content),
                           !.upstream = IF Truthy(delta)
                                        THEN Append(chat.upstream, delta.v)
                                        ELSE chat.upstream]
                   ELSE [chat EXCEPT
                           !.upstream = IF Truthy(delta)
                                        THEN Append(chat.upstream, delta.v)
                                        ELSE chat.upstream]
    /\ UNCHANGED <<ckVars, rt, pv, started, now, apiKey, chatSession, docVars, lastRequestTime, heap, ext,
                   lastIssued, extSinceChat>>

\* The same, with an onChunk that throws.
ChatDeltaCallbackThrows(delta) ==
    /\ chat.pc = "streaming"
    /\ Len(chat.delivered) < MaxDeltas
    /\ DeltaContent(delta) # Empty
    /\ ChatCatch("CALLBACK_ERROR", "onChunk")

\* Iterating the stream throws.
ChatStreamError ==
    /\ chat.pc = "streaming"
    /\ ChatCatch("STREAM_ERROR", "iterate")

\* The stream is exhausted: line 44, and the loop of line 380 ends.
ChatStreamEnd ==
    /\ chat.pc = "streaming"
    /\ LET history == HistoryPush(heap[chat.this].history,
                                  Message("assistant", chat.fullResponse))
       IN  /\ heap' = Collect([heap EXCEPT ![chat.this].history = history],
                              chatSession, NoSession)
           /\ chat' = [IdleChat EXCEPT !.pc = "done", !.delivered = chat.delivered,
                                       !.upstream = chat.upstream,
                                       !.afterExtract = chat.afterExtract,
                                       !.final = history]
    /\ UNCHANGED <<ckVars, rt, pv, started, now, apiKey, chatSession, docVars, lastRequestTime, ext, lastIssued,
                   extSinceChat>>

(***************************************************************************)
(* Specifications                                                          *)
(***************************************************************************)
\* The calls as the caller serializes them: one starts only when none is in flight.
SerialExtract ==
    \E pdf \in Pdfs : Quiescent /\ ExtractBegin(1, pdf) /\ UNCHANGED started
SerialChat ==
    \E q \in Queries : Quiescent /\ ChatBegin(q) /\ UNCHANGED started

Next ==
    \/ Tick
    \/ SerialExtract
    \/ \E e \in ExtIds : ExtractThrottleWake(e)
    \/ \E e \in ExtIds : ExtractAfterThrottle(e)
    \/ \E e \in ExtIds : ExtractNativeText(e)
    \/ \E e \in ExtIds : ExtractImagesFail(e)
    \/ \E e \in ExtIds : ExtractRequest(e)
    \/ \E e \in ExtIds : ExtractApiError(e)
    \/ \E e \in ExtIds : ExtractResponse(e)
    \/ SerialChat
    \/ ChatThrottleWake
    \/ ChatRequest
    \/ ChatOpenError
    \/ ChatOpened
    \/ \E d \in Deltas : ChatDelta(d)
    \/ \E d \in Deltas : ChatDeltaCallbackThrows(d)
    \/ ChatStreamError
    \/ ChatStreamEnd

Spec == Init /\ [][Next]_vars

\* The same calls made without waiting for one another: an extraction and chat
\* turns that start while it is suspended, resuming in any order.  The callers
\* start up to MaxExtractions extractions and MaxTurns chat turns, with one
\* payload, one question and one stream increment.
MaxExtractions == 1
MaxTurns == 2
ConcurrentPdfs == {"pdfA"}
ConcurrentQueries == {q \in Queries : AsksAuthorOrTitle(q)}
ConcurrentDeltas == {JStr(Str(<<"a">>))}

OverlappingExtract ==
    /\ started.ext < MaxExtractions
    /\ \E pdf \in ConcurrentPdfs : ExtractBegin(1, pdf)
    /\ started' = [started EXCEPT !.ext = @ + 1]
OverlappingChat ==
    /\ started.chat < MaxTurns
    /\ \E q \in ConcurrentQueries : ChatBegin(q)
    /\ started' = [started EXCEPT !.chat = @ + 1]

NextConcurrent ==
    \/ Tick
    \/ OverlappingExtract
    \/ ExtractThrottleWake(1)
    \/ ExtractAfterThrottle(1)
    \/ ExtractNativeText(1)
    \/ ExtractImagesFail(1)
    \/ ExtractRequest(1)
    \/ ExtractApiError(1)
    \/ ExtractResponse(1)
    \/ OverlappingChat
    \/ ChatThrottleWake
    \/ ChatRequest
    \/ ChatOpenError
    \/ ChatOpened
    \/ \E d \in ConcurrentDeltas : ChatDelta(d)
    \/ \E d \in ConcurrentDeltas : ChatDeltaCallbackThrows(d)
    \/ ChatStreamError
    \/ ChatStreamEnd

SpecConcurrent == Init /\ [][NextConcurrent]_vars

CkNext == ChunkCall

InitChunk == MainInit /\ CkInit /\ RtIdle /\ PvIdle

SpecChunk == InitChunk /\ [][CkNext]_vars

InitRetrieve == MainInit /\ CkIdle /\ RtInit /\ PvIdle

RtNext == RetrieveCall

SpecRetrieve == InitRetrieve /\ [][RtNext]_vars

InitPreview == MainInit /\ CkIdle /\ RtIdle /\ PvInit

PvNext == PreviewCall

SpecPreview == InitPreview /\ [][PvNext]_vars

(***************************************************************************)
(* Properties                                                              *)
(***************************************************************************)
Last(s) == s[Len(s)]

IsPrefix(s, t) == Len(s) <= Len(t) /\ SubSeq(t, 1, Len(s)) = s

\* One system message, then (user, assistant) pairs.
WellFormed(history) ==
    /\ Len(history) >= 1
    /\ Len(history) % 2 = 1
    /\ history[1].role = "system"
    /\ \A i \in 2..Len(history) :
          history[i].role = IF i % 2 = 0 THEN "user" ELSE "assistant"

\* The same, followed by the user message of a turn in flight.
WellFormedThenUser(history) ==
    /\ Len(history) >= 2
    /\ WellFormed(SubSeq(history, 1, Len(history) - 1))
    /\ Last(history).role = "user"

\* The turn in flight has sent its message to a session.
ChatUsesSession == chat.pc \in {"opening", "streaming"}

RECURSIVE ConcatAll(_)
ConcatAll(texts) ==
    IF texts = <<>> THEN Empty ELSE TCat(Head(texts), ConcatAll(Tail(texts)))

\* C1: with the calls serialized, a chat turn never uses a session that existed
\* when an extractAxioms call was started, and the first turn after such a call
\* uses a session whose history is the system message and that turn's user
\* message only.
C1_FreshSessionAfterExtraction ==
    ChatUsesSession =>
        /\ heap[chat.this] # FREE
        /\ ~heap[chat.this].stale
        /\ chat.afterExtract # "no" =>
              /\ Len(heap[chat.this].history) = 2
              /\ heap[chat.this].history[1] = Message("system", getSystemInstruction)
              /\ heap[chat.this].history[2].role = "user"

\* A turn streams from a session made after an extraction that started while
\* chatSession referred to an earlier session.
C1_Witness ==
    /\ chat.pc = "streaming"
    /\ chat.afterExtract = "over a session"
    /\ heap[chat.this].history[1].content.title # UNDEF

\* C2: an extractAxioms call that ends with an error leaves manuscriptSnippets,
\* manuscriptMetadata, fullManuscriptText and documentChunks as it found them.
C2_FailedExtractionKeepsDocumentState ==
    \A e \in ExtIds : ext[e].pc = "failed" => ext[e].docKept

\* C3: a chat turn that fails after its stream was requested leaves chatSession
\* null and raises the error it caught, and a turn's user message is never
\* appended to a history that ends with an unanswered user message.
C3_FailedTurnDiscardsSession ==
    /\ (chat.pc = "failed" /\ chat.failedAt \in {"open", "iterate", "onChunk"}) =>
          /\ chatSession = NoSession
          /\ chat.err = chat.thrown
    /\ ChatUsesSession => WellFormedThenUser(heap[chat.this].history)

\* A turn failed while its stream was iterated: no session is referenced any more.
C3_Witness ==
    /\ chat.pc = "failed"
    /\ chat.failedAt = "iterate"
    /\ chatSession = NoSession
    /\ heap = [s \in SIDs |-> FREE]

\* C4 (state): with no turn in flight the history of the session chatSession
\* refers to is the system message followed by (user, assistant) pairs; while
\* the stream of a turn is requested or read its history ends with the turn's
\* user message; the history a completed turn leaves ends with that user
\* message and the assistant message.
C4_HistoryShape ==
    /\ (~InFlight(chat.pc) /\ chatSession # NoSession) =>
          WellFormed(heap[chatSession].history)
    /\ ChatUsesSession =>
          /\ WellFormedThenUser(heap[chat.this].history)
          /\ Last(heap[chat.this].history).content.question = chat.userPrompt
    /\ chat.pc = "done" =>
          /\ WellFormed(chat.final)
          /\ Len(chat.final) >= 3
          /\ chat.final = heap[chatSession].history

\* C4 (step): no step removes or rewrites a message of a session's history.
C4_HistoryGrows ==
    \A s \in SIDs :
        (heap[s] # FREE /\ heap'[s] # FREE) =>
            IsPrefix(heap[s].history, heap'[s].history)

\* C4: chat history is append-only and ordered request-then-response.
C4_HistoryAppendOnly == [](C4_HistoryShape) /\ [][C4_HistoryGrows]_vars

\* A second turn of one session has completed.
C4_Witness ==
    /\ chat.pc = "done"
    /\ Len(chat.final) = 5
    /\ chat.final[3].content # chat.final[5].content

\* C5: onChunk is invoked once for each non-empty text delta of the stream, in the
\* order emitted, and the assistant message of a completed turn is the
\* concatenation, in order, of the texts passed to onChunk.
C5_IncrementsInOrder ==
    /\ chat.pc \in {"streaming", "done"} => chat.delivered = chat.upstream
    /\ chat.pc = "done" =>
          Last(chat.final) = Message("assistant", ConcatAll(chat.delivered))

\* A turn completed after two different increments.
C5_Witness ==
    /\ chat.pc = "done"
    /\ Len(chat.delivered) = 2
    /\ chat.delivered[1] # chat.delivered[2]

\* C6: any two consecutive outbound completion requests are issued at least
\* MIN_REQUEST_GAP apart.
C6_RequestsOneGapApart ==
    /\ \A e \in ExtIds :
          ext[e].sincePrev # NoTime => ext[e].sincePrev >= MIN_REQUEST_GAP
    /\ chat.sincePrev # NoTime => chat.sincePrev >= MIN_REQUEST_GAP

\* What C7 says of a call that has just completed throttleRequest.
ThrottleObeyed(call) ==
    call.pc = "throttled" =>
        LET elapsed == call.thr.start - call.thr.stamp
            waited  == now - call.thr.start
        IN  /\ elapsed < MIN_REQUEST_GAP => waited >= MIN_REQUEST_GAP - elapsed
            /\ elapsed >= MIN_REQUEST_GAP => waited = 0
            /\ lastRequestTime = now

\* C7: a throttleRequest call that starts less than MIN_REQUEST_GAP after the
\* recorded timestamp completes at least the remainder later, one that starts
\* later completes at once, and both leave lastRequestTime at the instant of
\* completion.
C7_ThrottleWaitsOutTheGap ==
    /\ \A e \in ExtIds : ThrottleObeyed(ext[e])
    /\ ThrottleObeyed(chat)

\* A call that started half a gap after the timestamp has completed its wait.
C7_Witness ==
    /\ chat.pc = "throttled"
    /\ chat.thr.start - chat.thr.stamp > 0
    /\ chat.thr.start - chat.thr.stamp < MIN_REQUEST_GAP
    /\ now > chat.thr.start

\* C8: with no extraction in flight currentPdfBase64 is null.
C8_PdfClearedWhenIdle ==
    (\A e \in ExtIds : ~InFlight(ext[e].pc)) => currentPdfBase64 = NoPdf

\* The windows chunkText pushed for the drawn inputs.
CkKept == SelectSeq(ckVisited, Kept)
CkStride == ckSize - ckOverlap

\* C9, as stated: every two consecutive emitted chunks start exactly
\* (chunkSize - overlap) apart.
C9_EmittedChunksOneStrideApart ==
    ckDone =>
        \A i \in 1..(Len(CkKept) - 1) :
            CkKept[i + 1].start - CkKept[i].start = CkStride

\* C9, amended: the windows visited are in ascending offset order, consecutive
\* ones start exactly (chunkSize - overlap) apart and share exactly `overlap`
\* characters; the chunks emitted are, in that order, windows visited, so two
\* consecutive ones start (k + 1) * (chunkSize - overlap) apart, k being the
\* number of windows discarded between them.
C9_WindowsOneStrideApart ==
    ckDone =>
        /\ \A j \in 1..(Len(ckVisited) - 1) :
              /\ ckVisited[j + 1].start - ckVisited[j].start = CkStride
              /\ ckVisited[j].end - ckVisited[j + 1].start = ckOverlap
              /\ ckVisited[j].end - ckVisited[j].start = ckSize
        /\ Len(ckOut) = Len(CkKept)
        /\ \A i \in 1..Len(ckOut) :
              ckOut[i] = TSub(ckText, CkKept[i].start,
                              Min(CkKept[i].start + ckSize, TLen(ckText)))
        /\ \A i \in 1..(Len(CkKept) - 1) :
              CkKept[i + 1].start - CkKept[i].start =
                  CkStride * (1 + Cardinality({j \in 1..Len(ckVisited) :
                                  /\ ~ckVisited[j].kept
                                  /\ ckVisited[j].start > CkKept[i].start
                                  /\ ckVisited[j].start < CkKept[i + 1].start}))

\* Two chunks emitted with a positive overlap asked for and a discarded window
\* between them.
C9_Witness ==
    /\ ckDone
    /\ ckOverlap > 0
    /\ \E i \in 1..(Len(CkKept) - 1) :
          CkKept[i + 1].start - CkKept[i].start = 2 * CkStride

\* The windows of the text by their offsets alone: window k starts at
\* k * (chunkSize - overlap) and exists when the one before it ends before the text.
CkWindowIndexes ==
    {k \in 0..TLen(ckText) :
        /\ k * CkStride < TLen(ckText)
        /\ k = 0 \/ (k - 1) * CkStride + ckSize < TLen(ckText)}
CkWindow(k) == TSub(ckText, k * CkStride, Min(k * CkStride + ckSize, TLen(ckText)))
CkLongWindows == {k \in CkWindowIndexes : TLen(TTrim(CkWindow(k))) >= MIN_CHUNK_LENGTH}

\* C10: chunkText emits a window iff its trimmed length is at least 100, and an
\* empty text gives no chunk.
C10_EmitsIffLongEnough ==
    ckDone =>
        /\ \A i \in 1..Len(ckOut) : TLen(TTrim(ckOut[i])) >= MIN_CHUNK_LENGTH
        /\ Len(ckOut) = Cardinality(CkLongWindows)
        /\ \A k \in CkLongWindows : \E i \in 1..Len(ckOut) : ckOut[i] = CkWindow(k)
        /\ ckText = Empty => ckOut = <<>>

\* Some windows of a text were emitted and some, long enough untrimmed, were not.
C10_Witness ==
    /\ ckDone
    /\ Len(ckOut) >= 1
    /\ \E j \in 1..Len(ckVisited) :
          ~ckVisited[j].kept /\ TLen(ckVisited[j].chunk) >= MIN_CHUNK_LENGTH

\* The score the code gave the chunk at position i (one-based) of rt.chunks.
RtScore(i) == rt.scored[i].score
RtPositions == 1..Len(rt.chunks)

\* C11: retrieveRelevantChunks returns at most topK chunks, each the element at
\* some position of the input, no position used twice.
C11_AtMostTopKFromInput ==
    rt.done =>
        /\ Len(rt.out) <= rt.topK
        /\ Len(rt.ranked) = Len(rt.out)
        /\ \A k \in 1..Len(rt.out) :
              /\ rt.ranked[k].pos \in RtPositions
              /\ rt.out[k] = rt.chunks[rt.ranked[k].pos]
        /\ \A k, m \in 1..Len(rt.out) :
              rt.ranked[k].pos = rt.ranked[m].pos => k = m

\* More chunks than topK, some of equal content, and topK of them returned.
C11_Witness ==
    /\ rt.done
    /\ rt.topK >= 2
    /\ Len(rt.chunks) > rt.topK
    /\ Len(rt.out) = rt.topK
    /\ \E i, j \in RtPositions : i # j /\ rt.chunks[i] = rt.chunks[j]

\* C12: for a non-empty chunk sequence and topK >= 1 the result is not empty;
\* for an empty chunk sequence it is empty.
C12_NeverStarved ==
    rt.done =>
        /\ (Len(rt.chunks) > 0 /\ rt.topK >= 1) => Len(rt.out) >= 1
        /\ Len(rt.chunks) = 0 => rt.out = <<>>

\* A query of short words only: every chunk scores 0 and one is returned.
C12_Witness ==
    /\ rt.done
    /\ rt.query # Empty
    /\ QueryWords(rt.query) = <<>>
    /\ Len(rt.chunks) >= 2
    /\ \A i \in RtPositions : RtScore(i) = 0
    /\ Len(rt.out) >= 1

\* The reference ranking of C13, by positions: the rank of a position is one
\* more than the number of positions that score higher or score the same and
\* come earlier.
RefRank(i) ==
    1 + Cardinality({j \in RtPositions :
                        \/ RtScore(j) > RtScore(i)
                        \/ RtScore(j) = RtScore(i) /\ j < i})
RefOrder == [r \in RtPositions |-> CHOOSE i \in RtPositions : RefRank(i) = r]
RefPasses(i) == RtScore(i) >= MIN_SCORE_THRESHOLD
RefKept ==
    IF Cardinality({i \in RtPositions : RefPasses(i)}) >= FALLBACK_BELOW
    THEN SelectSeq(RefOrder, RefPasses)
    ELSE RefOrder
RefResult == [k \in 1..Min(rt.topK, Len(RefKept)) |-> rt.chunks[RefKept[k]]]

\* C13: the result is the first topK of the reference ranking: by score
\* descending, input order among equal scores, cut at the threshold when at
\* least three chunks meet it.
C13_EqualsReferenceRanking ==
    rt.done =>
        /\ rt.out = RefResult
        /\ \A k \in 1..Len(rt.out) : rt.ranked[k].pos = RefKept[k]

\* Chunks below the threshold were cut, and two returned chunks of different
\* content have the same score.
C13_Witness ==
    /\ rt.done
    /\ Len(RefKept) < Len(rt.chunks)
    /\ \E k \in 1..(Len(rt.out) - 1) :
          /\ rt.ranked[k].score = rt.ranked[k + 1].score
          /\ rt.out[k] # rt.out[k + 1]

\* C17: a chunk's score includes the bonus iff the query has a trigger word and
\* the chunk's position is among the first three.
C17_BonusByPosition ==
    rt.done =>
        \A i \in RtPositions :
            (RtScore(i) - WordScore(TLower(rt.chunks[i]), QueryWords(rt.query)) = INTRO_BONUS)
                <=> (AsksAuthorOrTitle(rt.query) /\ i - 1 < INTRO_POSITIONS)

\* C14: a call that fails with GROQ_API_KEY_MISSING has not run throttleRequest
\* and has left Document State as it was.
C14_CredentialBeforeThrottle ==
    /\ \A e \in ExtIds :
          (ext[e].pc = "failed" /\ ext[e].failedAt = "credential") =>
              ext[e].thr = NoThr /\ ext[e].docKept
    /\ (chat.pc = "failed" /\ chat.failedAt = "credential") => chat.thr = NoThr

\* A step of the chatWithManuscriptStream call.
ChatStep ==
    \/ \E q \in Queries : ChatBegin(q)
    \/ ChatThrottleWake
    \/ ChatRequest
    \/ ChatOpenError
    \/ ChatOpened
    \/ \E d \in Deltas : ChatDelta(d)
    \/ \E d \in Deltas : ChatDeltaCallbackThrows(d)
    \/ ChatStreamError
    \/ ChatStreamEnd

\* C18: no step of a chat turn, completing or failing, changes manuscriptSnippets,
\* manuscriptMetadata, fullManuscriptText, documentChunks or currentPdfBase64.
C18_ChatLeavesDocumentState == [][ChatStep => UNCHANGED docVars]_vars

\* A turn has completed over a Document State of several chunks, one of them
\* matching the question and not the first.
C18_Witness ==
    /\ chat.pc = "done"
    /\ Len(documentChunks) >= 3
    /\ ScoreChunk(chat.final[Len(chat.final) - 1].content.question, documentChunks,
                  documentChunks[1]) = 0
    /\ ScoreChunk(chat.final[Len(chat.final) - 1].content.question, documentChunks,
                  documentChunks[3]) > 0

\* The prompt the turn in flight sent to its session.
SentPrompt == Last(heap[chat.this].history).content

\* C20: the prompt is the structure-only template iff documentChunks is empty and
\* the grounded one otherwise, whatever the query; both carry the structural map
\* (manuscriptMetadata.chapters, or 'Not available') and the user's question.
C20_TemplateByChunks ==
    ChatUsesSession =>
        /\ SentPrompt.template = "structure-only" <=> documentChunks = <<>>
        /\ SentPrompt.template = "grounded" <=> documentChunks # <<>>
        /\ documentChunks # <<>> => SentPrompt.context # <<>>
        /\ SentPrompt.map = IF Truthy(Prop(manuscriptMetadata, "chapters"))
                            THEN Prop(manuscriptMetadata, "chapters")
                            ELSE JStr(Str(<<"Not available">>))
        /\ SentPrompt.question = chat.userPrompt

\* A grounded prompt for a question that matches none of the chunks.
C20_Witness ==
    /\ ChatUsesSession
    /\ documentChunks # <<>>
    /\ SentPrompt.template = "grounded"
    /\ \A i \in 1..Len(documentChunks) :
          ScoreChunk(chat.userPrompt, documentChunks, documentChunks[i]) = 0

\* A structure-only prompt that carries 'Not available' for the map.
C20_WitnessNoChunks ==
    /\ ChatUsesSession
    /\ documentChunks = <<>>
    /\ SentPrompt.map = JStr(Str(<<"Not available">>))

\* C15: a transcript of PREVIEW_MAX characters or more is inlined as its first
\* PREVIEW_MAX characters and the truncation marker, a shorter one whole, and the
\* chunks committed with a transcript long enough to be used are those of the
\* whole transcript.
C15_PreviewTruncation ==
    pv.done =>
        /\ TLen(pv.native) >= PREVIEW_MAX =>
              pv.preview = TCat(TSub(pv.native, 0, PREVIEW_MAX), TRUNCATION_MARKER)
        /\ TLen(pv.native) < PREVIEW_MAX => pv.preview = pv.native
        /\ (pv.out.err = "none" /\ TLen(TTrim(pv.native)) > NATIVE_TEXT_MIN) =>
              pv.out.doc.chunks = chunkText(pv.native, DEFAULT_CHUNK_SIZE, DEFAULT_OVERLAP)

\* The turn in flight requests its stream: lines 374-378.
TurnTakesSession == chat.pc = "throttled" /\ chat'.pc = "opening"

\* C16: the session a chat turn requests its stream from was made after the last
\* commit of Document State by an extraction, under any interleaving of the
\* calls.
C16_TurnUsesSessionOfGeneration ==
    [][TurnTakesSession => ~heap'[chat'.this].outdated]_vars

\* C19: at every suspension point documentChunks is chunkText(fullManuscriptText),
\* and after an extraction that returned manuscriptMetadata.chapters is the
\* marker-wrapped prefix of fullManuscriptText of length min(15000, its length).
C19_DocumentStateOfOneManuscript ==
    /\ fullManuscriptText.kind = "string"
    /\ documentChunks = chunkText(fullManuscriptText.v, DEFAULT_CHUNK_SIZE, DEFAULT_OVERLAP)
    /\ (\E e \in ExtIds : ext[e].pc = "done") =>
          Prop(manuscriptMetadata, "chapters") =
              WrapMap(TSub(fullManuscriptText.v, 0,
                           Min(STRUCTURAL_MAP_MAX, TLen(fullManuscriptText.v))))


====
